---- MODULE Spec2Model ----
(***************************************************************************)
(* Project Icarus: hybrid ML-KEM + AES-256-GCM tunnel (phase 1, 3, 4) and  *)
(* the decoherence monitor with its algorithm negotiator (phase 5).        *)
(*                                                                         *)
(* The KEM (liboqs), HKDF and AES-GCM (cryptography) are libraries the     *)
(* program calls.  They are modelled here by small concrete functions on   *)
(* byte sequences that keep the structure of the real primitives: a KEM    *)
(* with re-encryption check and implicit rejection, a keyed stream cipher  *)
(* with a recomputed 16-byte tag, an extract-and-expand hash.  The hash    *)
(* used for tags and keys is a vector of polynomial evaluations; it is     *)
(* collision free on the inputs explored, which is the usual idealisation  *)
(* of a MAC / KDF.                                                         *)
(*                                                                         *)
(* Floating point coherence values are modelled in fixed point, in units   *)
(* of 1/SCALE, with round-to-nearest after the multiplication.             *)
(***************************************************************************)
EXTENDS Integers, Sequences, FiniteSets, TLC

(***************************************************************************)
(* Bounds of the model.                                                    *)
(***************************************************************************)
\* key generation draws its randomness from 0..MaxKeySeed
MaxKeySeed == 1
\* encapsulation draws its randomness from 0..MaxEncapRand
MaxEncapRand == 1
\* plaintexts have 0..MaxPlainLen bytes
MaxPlainLen == 1
\* os.urandom(12) returns one of the nonces 0..MaxNonce (as 12 bytes)
MaxNonce == 1
\* encrypt_payload is called at most MaxSeals times under one session key
MaxSeals == 3
\* a sender that is invoked repeatedly seals at most MaxSends records
MaxSends == 2
\* a monitor's methods are called directly until its tick is MaxCalls
MaxCalls == 3
\* a monitor without noise is ticked at most MaxTicks times
MaxTicks == 50

(***************************************************************************)
(* State.  The tunnel session: the locals of run_all_phases (phase 1, 3),  *)
(* the record that reaches the receiver, and what the receiver computes.   *)
(* The monitor: the fields of GravityFieldDecoherenceSimulator and the     *)
(* locals of run_decoherence_timeline.                                     *)
(***************************************************************************)
VARIABLES
    pc,            \* position of the session
    key_data,      \* generate_mlkem_keypair's result
    plaintext,     \* the payload bytes given to encrypt_payload
    kem_ct_hex,    \* sender: KEM ciphertext (hex)
    ss_sender,     \* sender: shared secret
    aes_key_s,     \* sender: session key
    nonce_hex,     \* sender: nonce (hex)
    ct_hex,        \* sender: AEAD ciphertext with tag (hex)
    aad,           \* sender: associated data (str)
    seal_log,      \* the nonces of the encrypt_payload calls made with aes_key_s
    packet,        \* the tunnel record as it reaches the receiver
    tamper,        \* what was altered on the way
    ss_receiver,   \* receiver: shared secret
    aes_key_r,     \* receiver: session key
    recovered,     \* receiver: result of decrypt_payload
    error,         \* the exception that ended the session, and where
    chain,         \* CryptographicAgility.ALGORITHM_CHAIN
    coherence,     \* field.coherence
    decay_rate,    \* field.decay_rate
    noise_std,     \* noise_std of run_decoherence_timeline
    noise,         \* the noise added by the last step
    tick,          \* field.tick
    history,       \* field.history
    previous_algo, \* previous_algo of run_decoherence_timeline
    log,           \* the lines printed by run_decoherence_timeline
    loop,          \* position of run_decoherence_timeline
    call,          \* the last direct call of negotiate_algorithm: value, result
    config,        \* the arguments the monitor was constructed with
    op,            \* the last direct call of a monitor method: name, result
    twin,          \* coherence of a second monitor, constructed alike
    files,         \* the files written under output/, by name
    intercept_log, \* specter.intercept_log
    tampered,      \* the result of specter.attempt_payload_tampering
    sim,           \* simulate_tampered_decryption: the library's answer, the call's end
    drawn,         \* the bytes os.urandom returned to the last encrypt_payload
    main           \* run_lab.main: args.phase (0 for None), the hint printed

session_vars ==
    <<pc, key_data, plaintext, kem_ct_hex, ss_sender, aes_key_s, nonce_hex,
      ct_hex, aad, seal_log, packet, tamper, ss_receiver, aes_key_r,
      recovered, error>>

monitor_vars ==
    <<chain, coherence, decay_rate, noise_std, noise, tick, history,
      previous_algo, log, loop, call, config, op, twin>>

lab_vars == <<files, intercept_log, tampered, sim>>

run_vars == <<drawn, main>>

vars == <<session_vars, monitor_vars, lab_vars, run_vars>>

(***************************************************************************)
(* Bytes.                                                                  *)
(***************************************************************************)
Byte == 0..255

RECURSIVE Xor8(_, _, _)
\* a ^ b on the low n bits
Xor8(a, b, n) ==
    IF n = 0 THEN 0
    ELSE (((a % 2) + (b % 2)) % 2) + 2 * Xor8(a \div 2, b \div 2, n - 1)

Xor(a, b) == Xor8(a, b, 8)

Pow2(k) == CASE k = 0 -> 1 [] k = 1 -> 2 [] k = 2 -> 4 [] k = 3 -> 8
             [] k = 4 -> 16 [] k = 5 -> 32 [] k = 6 -> 64 [] k = 7 -> 128

\* b ^ (1 << bit)
FlipBit(b, bit) ==
    IF (b \div Pow2(bit)) % 2 = 1 THEN b - Pow2(bit) ELSE b + Pow2(bit)

\* the byte sequence s with bit `bit` of byte idx (0-based) flipped
FlipAt(s, idx, bit) ==
    [i \in 1..Len(s) |-> IF i = idx + 1 THEN FlipBit(s[i], bit) ELSE s[i]]

RECURSIVE SumRange(_, _, _)
\* s[lo] + ... + s[hi], by halves
SumRange(s, lo, hi) ==
    IF lo > hi THEN 0
    ELSE IF lo = hi THEN s[lo]
    ELSE SumRange(s, lo, (lo + hi) \div 2) + SumRange(s, ((lo + hi) \div 2) + 1, hi)

Sum(s) == SumRange(s, 1, Len(s))

Rep(b, n) == [i \in 1..n |-> b]

(***************************************************************************)
(* bytes.hex() and bytes.fromhex().                                        *)
(***************************************************************************)
HexDigit == <<"0", "1", "2", "3", "4", "5", "6", "7",
              "8", "9", "a", "b", "c", "d", "e", "f">>

HexVal(c) == (CHOOSE i \in 1..16 : HexDigit[i] = c) - 1

IsHexChar(c) == \E i \in 1..16 : HexDigit[i] = c

\* bytes.hex(): two lower-case digits per byte, high nibble first
Hex(bs) ==
    [i \in 1..(2 * Len(bs)) |->
        IF i % 2 = 1 THEN HexDigit[(bs[(i + 1) \div 2] \div 16) + 1]
                     ELSE HexDigit[(bs[i \div 2] % 16) + 1]]

\* bytes.fromhex() is defined on even-length strings of hex digits
HexOk(h) == Len(h) % 2 = 0 /\ \A i \in 1..Len(h) : IsHexChar(h[i])

FromHex(h) ==
    [i \in 1..(Len(h) \div 2) |-> 16 * HexVal(h[2 * i - 1]) + HexVal(h[2 * i])]

(***************************************************************************)
(* str.encode() / bytes.decode(): UTF-8 on code points below 0x800.        *)
(***************************************************************************)
Utf8Char(c) ==
    IF c < 128 THEN <<c>> ELSE <<192 + (c \div 64), 128 + (c % 64)>>

RECURSIVE Utf8Range(_, _, _)
\* the encoding of s[lo..hi], by halves
Utf8Range(s, lo, hi) ==
    IF lo > hi THEN <<>>
    ELSE IF lo = hi THEN Utf8Char(s[lo])
    ELSE Utf8Range(s, lo, (lo + hi) \div 2)
         \o Utf8Range(s, ((lo + hi) \div 2) + 1, hi)

Utf8Encode(s) == Utf8Range(s, 1, Len(s))

\* a byte that starts a character (not a continuation byte 10xxxxxx)
Utf8Lead(b) == b < 128 \/ b >= 192

Utf8Decode(bs) ==
    LET leads == {i \in 1..Len(bs) : Utf8Lead(bs[i])}
        at(k) == CHOOSE i \in leads : Cardinality({j \in leads : j <= i}) = k
    IN  [k \in 1..Cardinality(leads) |->
            IF bs[at(k)] < 128 THEN bs[at(k)]
            ELSE ((bs[at(k)] - 192) * 64) + (bs[at(k) + 1] - 128)]

(***************************************************************************)
(* The hash behind the library primitives: n polynomial evaluations of the *)
(* input modulo the prime 251, at the points 2, 3, ..., n + 1.             *)
(***************************************************************************)
RECURSIVE PowMod(_, _)
\* a^k mod 251, by squaring
PowMod(a, k) ==
    IF k = 0 THEN 1
    ELSE LET h == PowMod(a, k \div 2)
         IN  (((h * h) % 251) * (IF k % 2 = 1 THEN a ELSE 1)) % 251

RECURSIVE PolyRange(_, _, _, _)
\* sum of (s[i] + 1) * a^(hi - i) for i in lo..hi, mod 251, by halves
PolyRange(s, lo, hi, a) ==
    IF lo > hi THEN 0
    ELSE IF lo = hi THEN (s[lo] + 1) % 251
    ELSE LET mid == (lo + hi) \div 2
         IN  ((PolyRange(s, lo, mid, a) * PowMod(a, hi - mid))
              + PolyRange(s, mid + 1, hi, a)) % 251

PolyHash(s, n) ==
    [j \in 1..n |-> (PowMod(j + 1, Len(s)) + PolyRange(s, 1, Len(s), j + 1)) % 251]

(***************************************************************************)
(* oqs.KeyEncapsulation: generate_keypair, encap_secret, decap_secret.     *)
(* A key pair is made from a seed; the ciphertext is the message masked    *)
(* with the public key plus a check byte; decapsulation re-encrypts the    *)
(* decrypted message and, when the result is not the ciphertext received,  *)
(* returns a secret made from the private rejection value and the          *)
(* ciphertext (implicit rejection, FIPS 203).                              *)
(***************************************************************************)
KemAlgorithms == {"ML-KEM-512", "ML-KEM-768", "ML-KEM-1024"}

KemPkByte(seed) == ((7 * seed) + 3) % 256

KemKeygen(seed) ==
    [public_key  |-> <<KemPkByte(seed)>>,
     private_key |-> <<seed, ((13 * seed) + 5) % 256>>]

KemCipher(p, m) == <<Xor(m, p), ((31 * m) + p + 17) % 256>>

\* the secret of an accepted ciphertext
KemSecretG(p, m) == <<0, m, p, (m + p) % 256>>

\* the secret of a rejected ciphertext
KemSecretJ(z, c) == <<1, z, c[1], c[2]>>

KemEncap(alg, pk, m) ==
    IF alg \notin KemAlgorithms THEN [err |-> "MechanismNotSupportedError"]
    ELSE IF Len(pk) # 1 THEN [err |-> "ValueError"]
    ELSE [err |-> "", ciphertext |-> KemCipher(pk[1], m),
          shared_secret |-> KemSecretG(pk[1], m)]

KemDecap(alg, sk, c) ==
    IF alg \notin KemAlgorithms THEN [err |-> "MechanismNotSupportedError"]
    ELSE IF Len(sk) # 2 \/ Len(c) # 2 THEN [err |-> "ValueError"]
    ELSE LET p == KemPkByte(sk[1])
             m == Xor(c[1], p)
         IN  [err |-> "",
              shared_secret |-> IF KemCipher(p, m) = c THEN KemSecretG(p, m)
                                ELSE KemSecretJ(sk[2], c)]

(***************************************************************************)
(* cryptography: HKDF(SHA3_256, length, salt=None, info).derive(ikm).       *)
(***************************************************************************)
Hkdf(length, info, ikm) == PolyHash(<<Len(info)>> \o info \o ikm, length)

(***************************************************************************)
(* cryptography: AESGCM(key).encrypt / .decrypt.  The ciphertext is the    *)
(* plaintext xor a key stream, followed by the 16-byte tag over the key,   *)
(* the nonce, the associated data and the encrypted bytes.                 *)
(***************************************************************************)
GcmTagLen == 16

GcmStream(key, nonce, i) ==
    (Sum(key) + (3 * Sum(nonce)) + (7 * i) + 1) % 256

GcmCrypt(key, nonce, data) ==
    [i \in 1..Len(data) |-> Xor(data[i], GcmStream(key, nonce, i))]

GcmTag(key, nonce, ad, body) ==
    PolyHash(key \o nonce \o <<Len(ad)>> \o ad \o <<Len(body)>> \o body,
             GcmTagLen)

AesGcmEncrypt(key, nonce, data, ad) ==
    LET body == GcmCrypt(key, nonce, data)
    IN  body \o GcmTag(key, nonce, ad, body)

AesGcmDecrypt(key, nonce, data, ad) ==
    IF Len(data) < GcmTagLen THEN [err |-> "InvalidTag"]
    ELSE LET n    == Len(data) - GcmTagLen
             body == SubSeq(data, 1, n)
             tag  == SubSeq(data, n + 1, Len(data))
         IN  IF tag = GcmTag(key, nonce, ad, body)
             THEN [err |-> "", plaintext |-> GcmCrypt(key, nonce, body)]
             ELSE [err |-> "InvalidTag"]

(***************************************************************************)
(* Phase 1 and phase 3: the functions of the tunnel.  A result is a record *)
(* whose field err names the exception raised ("" when the call returns).  *)
(***************************************************************************)
\* b"icarus-tunnel-v1"
TUNNEL_CONTEXT ==
    <<105, 99, 97, 114, 117, 115, 45, 116, 117, 110, 110, 101, 108, 45, 118, 49>>

\* b"icarus-telemetry-channel"
TELEMETRY_AAD ==
    <<105, 99, 97, 114, 117, 115, 45, 116, 101, 108, 101, 109,
      101, 116, 114, 121, 45, 99, 104, 97, 110, 110, 101, 108>>

AES_KEY_LEN == 32

NONCE_LEN == 12

\* the values os.urandom(12) can return in the model
Nonces == {Rep(n, NONCE_LEN) : n \in 0..MaxNonce}

\* json.dumps(payload).encode(): the first 0..MaxPlainLen bytes of a sample
SAMPLE_PAYLOAD == <<123, 255, 0, 34, 125>>

Plaintexts == {SubSeq(SAMPLE_PAYLOAD, 1, n) : n \in 0..MaxPlainLen}

generate_mlkem_keypair(security_level, seed) ==
    IF security_level \notin KemAlgorithms
    THEN [err |-> "MechanismNotSupportedError"]
    ELSE LET kp == KemKeygen(seed)
         IN  [err |-> "",
              algorithm   |-> security_level,
              public_key  |-> Hex(kp.public_key),
              private_key |-> Hex(kp.private_key)]

sender_encapsulate(public_key_hex, algorithm, m) ==
    IF ~HexOk(public_key_hex) THEN [err |-> "ValueError"]
    ELSE LET r == KemEncap(algorithm, FromHex(public_key_hex), m)
         IN  IF r.err # "" THEN [err |-> r.err]
             ELSE [err |-> "",
                   ciphertext_kem_hex |-> Hex(r.ciphertext),
                   shared_secret      |-> r.shared_secret]

\* variant: the key is derived from the context alone
derive_aes_key_ignores_secret(shared_secret, context) ==
    Hkdf(AES_KEY_LEN, context, <<>>)

\* variant: the context label is left out of the derivation
derive_aes_key_ignores_context(shared_secret, context) ==
    Hkdf(AES_KEY_LEN, <<>>, shared_secret)

derive_aes_key(shared_secret, context) ==
    Hkdf(AES_KEY_LEN, context, shared_secret)

\* variant: the label returned is not the one that was authenticated
encrypt_payload_other_label(aes_key, data, nonce) ==
    LET ad         == TELEMETRY_AAD
        ciphertext == AesGcmEncrypt(aes_key, nonce, data, ad)
    IN  [nonce_hex      |-> Hex(nonce),
         ciphertext_hex |-> Hex(ciphertext),
         aad            |-> Utf8Decode(TUNNEL_CONTEXT)]

\* variant: the nonce of the first call is kept at module level and used
\* again by the later calls
encrypt_payload_keeps_nonce(aes_key, data, nonce) ==
    LET ad         == TELEMETRY_AAD
        kept       == IF seal_log # <<>> THEN FromHex(seal_log[1]) ELSE nonce
        ciphertext == AesGcmEncrypt(aes_key, kept, data, ad)
    IN  [nonce_hex      |-> Hex(kept),
         ciphertext_hex |-> Hex(ciphertext),
         aad            |-> Utf8Decode(ad)]

encrypt_payload(aes_key, data, nonce) ==
    LET ad         == TELEMETRY_AAD
        ciphertext == AesGcmEncrypt(aes_key, nonce, data, ad)
    IN  [nonce_hex      |-> Hex(nonce),
         ciphertext_hex |-> Hex(ciphertext),
         aad            |-> Utf8Decode(ad)]

receiver_decapsulate(private_key_hex, ciphertext_kem_hex, algorithm) ==
    IF ~HexOk(private_key_hex) \/ ~HexOk(ciphertext_kem_hex)
    THEN [err |-> "ValueError"]
    ELSE KemDecap(algorithm, FromHex(private_key_hex),
                  FromHex(ciphertext_kem_hex))

\* variant: the bytes decrypted before the tag was compared go out with
\* the error
decrypt_payload_releases(aes_key, n_hex, c_hex, ad) ==
    IF ~HexOk(n_hex) \/ ~HexOk(c_hex) THEN [err |-> "ValueError"]
    ELSE LET r == AesGcmDecrypt(aes_key, FromHex(n_hex),
                                FromHex(c_hex), Utf8Encode(ad))
             n == Len(c_hex) \div 2
         IN  IF r.err = "" THEN [err |-> "", plaintext |-> r.plaintext]
             ELSE [err |-> r.err,
                   plaintext |-> GcmCrypt(aes_key, FromHex(n_hex),
                                          SubSeq(FromHex(c_hex), 1,
                                                 n - GcmTagLen))]

\* variant: InvalidTag is caught and the call returns
decrypt_payload_swallow(aes_key, n_hex, c_hex, ad) ==
    IF ~HexOk(n_hex) \/ ~HexOk(c_hex) THEN [err |-> "ValueError"]
    ELSE LET r == AesGcmDecrypt(aes_key, FromHex(n_hex),
                                FromHex(c_hex), Utf8Encode(ad))
         IN  IF r.err = "" THEN [err |-> "", plaintext |-> r.plaintext]
             ELSE [err |-> "", plaintext |-> <<>>]

\* variant: the tag is verified against the fixed label, not the one given
decrypt_payload_fixed_label(aes_key, n_hex, c_hex, ad) ==
    IF ~HexOk(n_hex) \/ ~HexOk(c_hex) THEN [err |-> "ValueError"]
    ELSE LET r == AesGcmDecrypt(aes_key, FromHex(n_hex),
                                FromHex(c_hex), TELEMETRY_AAD)
         IN  IF r.err = "" THEN [err |-> "", plaintext |-> r.plaintext]
             ELSE [err |-> r.err]

decrypt_payload(aes_key, n_hex, c_hex, ad) ==
    IF ~HexOk(n_hex) \/ ~HexOk(c_hex) THEN [err |-> "ValueError"]
    ELSE LET r == AesGcmDecrypt(aes_key, FromHex(n_hex),
                                FromHex(c_hex), Utf8Encode(ad))
         IN  IF r.err = "" THEN [err |-> "", plaintext |-> r.plaintext]
             ELSE [err |-> r.err]

(***************************************************************************)
(* Phase 5: GravityFieldDecoherenceSimulator and CryptographicAgility.     *)
(* A coherence value v of the program is the integer 1000 * v.             *)
(***************************************************************************)
\* 1.0
ONE == 1000

\* the bands of negotiate_algorithm: 0.7, 0.4, 0.2
BAND_PRIMARY == 700

BAND_FALLBACK1 == 400

BAND_FALLBACK2 == 200

\* the collapse test of run_decoherence_timeline: coherence < 0.05
COLLAPSE == 50

\* decay_rate of run_decoherence_timeline: 0.06
TIMELINE_DECAY == 60

\* noise_std passed by run_all_phases: 0.025
LAB_NOISE == 25

\* run_decoherence_timeline performs at most MaxSteps iterations
MaxSteps == 6

\* the defaults of GravityFieldDecoherenceSimulator.__init__: 1.0 and 0.05
DEFAULT_DECAY == 50

DefaultConfig == [initial_coherence |-> ONE, decay_rate |-> DEFAULT_DECAY]

\* the default threshold of is_coherent: 0.25
COHERENT_THRESHOLD == 250

\* the length of the bar coherence_bar draws
BAR_WIDTH == 40

\* decay rates in (0,1) given to the constructor
DecayRates == {1, TIMELINE_DECAY, 500, 999}

\* noise magnitudes given to step
NoiseStds == {0, LAB_NOISE, 600}

\* arguments the constructor is called with: the defaults, values in range,
\* and values out of range (__init__ stores what it is given)
ConfigDecayRates == DecayRates \cup {DEFAULT_DECAY, -100, 0, ONE, 1500}

ConfigCoherences == {ONE, 0, 1500}

\* the standard normal samples behind random.gauss(0, sigma) = 0 + z * sigma
GaussZ == {-3, 0, 2}

\* nist_level None of the classical entry is written 0
ALGORITHM_CHAIN ==
    <<[name |-> "ML-KEM-768",    pqc |-> TRUE,  nist_level |-> 3, status |-> "PRIMARY"],
      [name |-> "ML-KEM-1024",   pqc |-> TRUE,  nist_level |-> 5, status |-> "FALLBACK-1"],
      [name |-> "ML-DSA-65+AES", pqc |-> TRUE,  nist_level |-> 3, status |-> "FALLBACK-2"],
      [name |-> "X25519+AES256", pqc |-> FALSE, nist_level |-> 0,
       status |-> "EMERGENCY (classical)"]>>

Max(a, b) == IF a >= b THEN a ELSE b

Min(a, b) == IF a <= b THEN a ELSE b

\* self.coherence *= (1 - self.decay_rate), rounded to the nearest unit
Decay(c, d) ==
    ((c * (ONE - d)) + (ONE \div 2)) \div ONE

\* variant: a noise magnitude of 0 is replaced by the lab's magnitude
step_default_sigma(c, d, perturbation_noise, z) ==
    Max(0, Min(ONE, Decay(c, d)
                    + (z * (IF perturbation_noise = 0 THEN LAB_NOISE
                            ELSE perturbation_noise))))

\* variant: the noise is clamped to [0, 1] before it is added
step_clamps_noise(c, d, perturbation_noise, z) ==
    Max(0, Min(ONE, Decay(c, d) + Max(0, Min(ONE, z * perturbation_noise))))

\* variant: no clamp
step_unclamped(c, d, perturbation_noise, z) ==
    Decay(c, d) + (z * perturbation_noise)

\* variant: a monitor that has collapsed is not stepped any further
step_refuses_after_collapse(c, d, perturbation_noise, z) ==
    IF c < COLLAPSE THEN c
    ELSE Max(0, Min(ONE, Decay(c, d) + (z * perturbation_noise)))

\* variant: the value is clamped to [0.05, 1]
step_holds_at_collapse(c, d, perturbation_noise, z) ==
    Max(COLLAPSE, Min(ONE, Decay(c, d) + (z * perturbation_noise)))

\* GravityFieldDecoherenceSimulator.step: the new coherence, for the normal
\* sample z drawn by random.gauss
step(c, d, perturbation_noise, z) ==
    Max(0, Min(ONE, Decay(c, d) + (z * perturbation_noise)))

\* variant: every band includes its upper threshold's value in the band above
negotiate_rank_inclusive(field_coherence) ==
    IF field_coherence >= BAND_PRIMARY THEN 0
    ELSE IF field_coherence >= BAND_FALLBACK1 THEN 1
    ELSE IF field_coherence >= BAND_FALLBACK2 THEN 2
    ELSE 3

\* variant: the lowest band starts strictly below 0.2
negotiate_rank_low_inclusive(field_coherence) ==
    IF field_coherence > BAND_PRIMARY THEN 0
    ELSE IF field_coherence > BAND_FALLBACK1 THEN 1
    ELSE IF field_coherence >= BAND_FALLBACK2 THEN 2
    ELSE 3

\* variant: the two middle branches return each other's descriptor
negotiate_rank_swapped(field_coherence) ==
    IF field_coherence > BAND_PRIMARY THEN 0
    ELSE IF field_coherence > BAND_FALLBACK1 THEN 2
    ELSE IF field_coherence > BAND_FALLBACK2 THEN 1
    ELSE 3

\* the rank (0-based index into the chain) negotiate_algorithm selects
negotiate_rank(field_coherence) ==
    IF field_coherence > BAND_PRIMARY THEN 0
    ELSE IF field_coherence > BAND_FALLBACK1 THEN 1
    ELSE IF field_coherence > BAND_FALLBACK2 THEN 2
    ELSE 3

\* what a call that falls off the end of its branches returns
NoDescriptor ==
    [name |-> "None", pqc |-> FALSE, nist_level |-> 0, status |-> "None"]

\* variant: the last branch tests field_coherence > 0.0 and nothing follows
negotiate_algorithm_no_else(algorithm_chain, field_coherence) ==
    IF negotiate_rank(field_coherence) < 3 \/ field_coherence > 0
    THEN algorithm_chain[negotiate_rank(field_coherence) + 1]
    ELSE NoDescriptor

\* variant: once the emergency suite was selected it stays selected
negotiate_algorithm_sticky(algorithm_chain, field_coherence) ==
    IF previous_algo = algorithm_chain[4].name THEN algorithm_chain[4]
    ELSE algorithm_chain[negotiate_rank(field_coherence) + 1]

negotiate_algorithm(algorithm_chain, field_coherence) ==
    algorithm_chain[negotiate_rank(field_coherence) + 1]

(***************************************************************************)
(* The tunnel session.                                                     *)
(***************************************************************************)
NoError == [step |-> "", err |-> ""]

NoPacket ==
    [algorithm |-> "", kem_ciphertext |-> <<>>, aes_nonce |-> <<>>,
     aes_ciphertext |-> <<>>, aad |-> <<>>]

NoResult == [err |-> "not called"]

\* a file of output/ that was not written
NoFile == [absent |-> TRUE]

Written(f) == "absent" \notin DOMAIN f

\* json.dump(key_data, f): the dict generate_mlkem_keypair returned
KeysFile(kd) ==
    [algorithm         |-> kd.algorithm,
     public_key        |-> kd.public_key,
     private_key       |-> kd.private_key,
     public_key_bytes  |-> Len(kd.public_key) \div 2,
     private_key_bytes |-> Len(kd.private_key) \div 2,
     nist_level        |-> 3]

\* the state main() starts in, args.phase given (0 stands for None)
InitArgs(phase) ==
    /\ main = [phase |-> phase, hint |-> FALSE]
    /\ drawn = <<>>
    /\ pc = "keygen"
    /\ key_data = [err |-> "not called"]
    /\ plaintext = <<>>
    /\ kem_ct_hex = <<>>
    /\ ss_sender = <<>>
    /\ aes_key_s = <<>>
    /\ nonce_hex = <<>>
    /\ ct_hex = <<>>
    /\ aad = <<>>
    /\ seal_log = <<>>
    /\ packet = NoPacket
    /\ tamper = "none"
    /\ ss_receiver = <<>>
    /\ aes_key_r = <<>>
    /\ recovered = NoResult
    /\ error = NoError
    /\ files = [keys |-> NoFile, telemetry_payload |-> NoFile,
                tunnel_record |-> NoFile]
    /\ intercept_log = <<>>
    /\ tampered = <<>>
    /\ sim = [aesgcm |-> "not called", outcome |-> "not called"]

\* main() called without --phase
InitSession == InitArgs(0)

\* variant: the failure of the tampering step is noted and the run goes on
Raise_goes_on(where, what) ==
    /\ pc' = IF where = "attempt_payload_tampering" THEN "tampered"
             ELSE "failed"
    /\ error' = [step |-> where, err |-> what]

Raise(where, what) ==
    /\ pc' = "failed"
    /\ error' = [step |-> where, err |-> what]

\* run_all_phases, phase 1: key_data = p1.generate_mlkem_keypair("ML-KEM-768"),
\* then json.dump(key_data, f) into output/keys.json
GenerateKeypair ==
    /\ pc = "keygen"
    /\ \E seed \in 0..MaxKeySeed :
         key_data' = generate_mlkem_keypair("ML-KEM-768", seed)
    /\ IF key_data'.err = ""
       THEN /\ pc' = "encap"
            /\ error' = error
            /\ files' = [files EXCEPT !.keys = KeysFile(key_data')]
       ELSE /\ Raise("generate_mlkem_keypair", key_data'.err)
            /\ files' = files
    /\ UNCHANGED <<plaintext, kem_ct_hex, ss_sender, aes_key_s, nonce_hex,
                   ct_hex, aad, seal_log, packet, tamper, ss_receiver,
                   aes_key_r, recovered>>
    /\ UNCHANGED <<monitor_vars, intercept_log, tampered, sim>>
    /\ UNCHANGED run_vars

\* the parameter sets generate_mlkem_keypair can be asked for: the three of
\* ML-KEM, and a name liboqs does not know
SecurityLevels == KemAlgorithms \cup {"Kyber768"}

\* phase 1 with any security level: generate_mlkem_keypair(security_level),
\* then json.dump(key_data, f) into output/keys.json
GenerateAnyKeypair ==
    /\ pc = "keygen"
    /\ \E level \in SecurityLevels, seed \in 0..MaxKeySeed :
         key_data' = generate_mlkem_keypair(level, seed)
    /\ IF key_data'.err = ""
       THEN /\ pc' = "encap"
            /\ error' = error
            /\ files' = [files EXCEPT !.keys = KeysFile(key_data')]
       ELSE /\ Raise("generate_mlkem_keypair", key_data'.err)
            /\ files' = files
    /\ UNCHANGED <<plaintext, kem_ct_hex, ss_sender, aes_key_s, nonce_hex,
                   ct_hex, aad, seal_log, packet, tamper, ss_receiver,
                   aes_key_r, recovered>>
    /\ UNCHANGED <<monitor_vars, intercept_log, tampered, sim>>
    /\ UNCHANGED run_vars

\* kem_ct_hex, ss_sender = p3.sender_encapsulate(public_key, algorithm)
SenderEncapsulate ==
    /\ pc = "encap"
    /\ \E m \in 0..MaxEncapRand :
         LET r == sender_encapsulate(key_data.public_key, key_data.algorithm, m)
         IN  IF r.err = ""
             THEN /\ kem_ct_hex' = r.ciphertext_kem_hex
                  /\ ss_sender' = r.shared_secret
                  /\ pc' = "derive_s"
                  /\ error' = error
             ELSE /\ Raise("sender_encapsulate", r.err)
                  /\ UNCHANGED <<kem_ct_hex, ss_sender>>
    /\ UNCHANGED <<key_data, plaintext, aes_key_s, nonce_hex, ct_hex, aad,
                   seal_log, packet, tamper, ss_receiver, aes_key_r, recovered>>
    /\ UNCHANGED <<monitor_vars, lab_vars>>
    /\ UNCHANGED run_vars

\* aes_key_s = p3.derive_aes_key(ss_sender)
DeriveSender ==
    /\ pc = "derive_s"
    /\ aes_key_s' = derive_aes_key(ss_sender, TUNNEL_CONTEXT)
    /\ pc' = "seal"
    /\ UNCHANGED <<key_data, plaintext, kem_ct_hex, ss_sender, nonce_hex,
                   ct_hex, aad, seal_log, packet, tamper, ss_receiver,
                   aes_key_r, recovered, error>>
    /\ UNCHANGED <<monitor_vars, lab_vars>>
    /\ UNCHANGED run_vars

\* one call nonce_hex, ct_hex, aad = p3.encrypt_payload(aes_key_s, plaintext)
Seal ==
    \E pt \in Plaintexts, nonce \in Nonces :
        \E r \in {encrypt_payload(aes_key_s, pt, nonce)} :
            /\ plaintext' = pt
            /\ nonce_hex' = r.nonce_hex
            /\ ct_hex' = r.ciphertext_hex
            /\ aad' = r.aad
            /\ seal_log' = Append(seal_log, r.nonce_hex)
            /\ drawn' = nonce

EncryptPayload ==
    /\ pc = "seal"
    /\ Seal
    /\ pc' = "channel"
    /\ UNCHANGED <<key_data, kem_ct_hex, ss_sender, aes_key_s, packet, tamper,
                   ss_receiver, aes_key_r, recovered, error>>
    /\ UNCHANGED <<monitor_vars, lab_vars>>
    /\ UNCHANGED main

\* a further call of encrypt_payload with the same session key
EncryptAgain ==
    /\ pc = "channel"
    /\ Len(seal_log) < MaxSeals
    /\ Seal
    /\ UNCHANGED <<pc, key_data, kem_ct_hex, ss_sender, aes_key_s, packet,
                   tamper, ss_receiver, aes_key_r, recovered, error>>
    /\ UNCHANGED <<monitor_vars, lab_vars>>
    /\ UNCHANGED main

\* the sender's three functions are invoked once more, for a further record
\* under the same public key: encapsulation, derivation and sealing anew
SenderAgain ==
    /\ pc = "channel"
    /\ Len(seal_log) < MaxSends
    /\ pc' = "encap"
    /\ UNCHANGED <<key_data, plaintext, kem_ct_hex, ss_sender, aes_key_s,
                   nonce_hex, ct_hex, aad, seal_log, packet, tamper,
                   ss_receiver, aes_key_r, recovered, error>>
    /\ UNCHANGED <<monitor_vars, lab_vars>>
    /\ UNCHANGED run_vars

\* the tunnel record made of the sender's values
SentPacket ==
    [algorithm      |-> key_data.algorithm,
     kem_ciphertext |-> kem_ct_hex,
     aes_nonce      |-> nonce_hex,
     aes_ciphertext |-> ct_hex,
     aad            |-> aad]

\* associated data an altered record can carry: empty, truncated, one
\* character changed, a non-ASCII character appended, the KDF context
AlteredAads ==
    LET a == Utf8Decode(TELEMETRY_AAD)
    IN  {<<>>, SubSeq(a, 1, Len(a) - 1), [a EXCEPT ![1] = 73],
         Append(a, 233), Utf8Decode(TUNNEL_CONTEXT)}

Deliver(p, how) ==
    /\ pc = "channel"
    /\ packet' = p
    /\ tamper' = how
    /\ pc' = "decap"
    /\ UNCHANGED <<key_data, plaintext, kem_ct_hex, ss_sender, aes_key_s,
                   nonce_hex, ct_hex, aad, seal_log, ss_receiver, aes_key_r,
                   recovered, error>>
    /\ UNCHANGED <<monitor_vars, lab_vars>>
    /\ UNCHANGED run_vars

\* the record arrives as sent
Transmit == Deliver(SentPacket, "none")

\* one bit of the AEAD ciphertext (payload or tag) is flipped on the way
TamperAead ==
    \E idx \in 0..((Len(ct_hex) \div 2) - 1), bit \in 0..7 :
        Deliver([SentPacket EXCEPT
                    !.aes_ciphertext = Hex(FlipAt(FromHex(ct_hex), idx, bit))],
                "aead_bit")

\* one bit of the KEM ciphertext is flipped on the way
TamperKem ==
    \E idx \in 0..((Len(kem_ct_hex) \div 2) - 1), bit \in 0..7 :
        Deliver([SentPacket EXCEPT
                    !.kem_ciphertext = Hex(FlipAt(FromHex(kem_ct_hex), idx, bit))],
                "kem_bit")

\* the associated data is replaced on the way
TamperAad ==
    \E a \in AlteredAads :
        /\ a # aad
        /\ Deliver([SentPacket EXCEPT !.aad = a], "aad")

\* ss_receiver = p3.receiver_decapsulate(private_key, kem_ct_hex, algorithm)
ReceiverDecapsulate ==
    /\ pc = "decap"
    /\ LET r == receiver_decapsulate(key_data.private_key,
                                     packet.kem_ciphertext, key_data.algorithm)
       IN  IF r.err = ""
           THEN /\ ss_receiver' = r.shared_secret
                /\ pc' = "derive_r"
                /\ error' = error
           ELSE /\ Raise("receiver_decapsulate", r.err)
                /\ UNCHANGED ss_receiver
    /\ UNCHANGED <<key_data, plaintext, kem_ct_hex, ss_sender, aes_key_s,
                   nonce_hex, ct_hex, aad, seal_log, packet, tamper,
                   aes_key_r, recovered>>
    /\ UNCHANGED <<monitor_vars, lab_vars>>
    /\ UNCHANGED run_vars

\* aes_key_r = p3.derive_aes_key(ss_receiver)
DeriveReceiver ==
    /\ pc = "derive_r"
    /\ aes_key_r' = derive_aes_key(ss_receiver, TUNNEL_CONTEXT)
    /\ pc' = "open"
    /\ UNCHANGED <<key_data, plaintext, kem_ct_hex, ss_sender, aes_key_s,
                   nonce_hex, ct_hex, aad, seal_log, packet, tamper,
                   ss_receiver, recovered, error>>
    /\ UNCHANGED <<monitor_vars, lab_vars>>
    /\ UNCHANGED run_vars

\* p3.decrypt_payload(aes_key_r, nonce_hex, ct_hex, aad)
DecryptPayload ==
    /\ pc = "open"
    /\ recovered' = decrypt_payload(aes_key_r, packet.aes_nonce,
                                    packet.aes_ciphertext, packet.aad)
    /\ IF recovered'.err = "" THEN pc' = "done" /\ error' = error
       ELSE Raise("decrypt_payload", recovered'.err)
    /\ UNCHANGED <<key_data, plaintext, kem_ct_hex, ss_sender, aes_key_s,
                   nonce_hex, ct_hex, aad, seal_log, packet, tamper,
                   ss_receiver, aes_key_r>>
    /\ UNCHANGED <<monitor_vars, lab_vars>>
    /\ UNCHANGED run_vars

(***************************************************************************)
(* run_all_phases after the tunnel was verified: the tunnel record is      *)
(* written, then phase 4 intercepts the record, flips one bit of the       *)
(* ciphertext and shows what the receiver's library call answers.          *)
(***************************************************************************)
\* variant: the record also carries the session key, as a debugging aid
tunnel_record_with_key(algorithm, k_hex, n_hex, c_hex, ad) ==
    [algorithm      |-> algorithm,
     kem_ciphertext |-> k_hex,
     aes_nonce      |-> n_hex,
     aes_ciphertext |-> c_hex,
     aad            |-> ad,
     session_key    |-> Hex(aes_key_s)]

\* variant: the record names the recommended parameter set, whatever the
\* key pair's
tunnel_record_default_algorithm(algorithm, k_hex, n_hex, c_hex, ad) ==
    [algorithm      |-> "ML-KEM-768",
     kem_ciphertext |-> k_hex,
     aes_nonce      |-> n_hex,
     aes_ciphertext |-> c_hex,
     aad            |-> ad]

\* the dict written to output/tunnel_record.json
tunnel_record(algorithm, k_hex, n_hex, c_hex, ad) ==
    [algorithm      |-> algorithm,
     kem_ciphertext |-> k_hex,
     aes_nonce      |-> n_hex,
     aes_ciphertext |-> c_hex,
     aad            |-> ad]

\* json.dump(tunnel_record, f), after decrypt_payload returned
WriteTunnelRecord ==
    /\ pc = "done"
    /\ files' = [files EXCEPT !.tunnel_record =
                    tunnel_record(key_data.algorithm, kem_ct_hex, nonce_hex,
                                  ct_hex, aad)]
    /\ pc' = "recorded"
    /\ UNCHANGED <<key_data, plaintext, kem_ct_hex, ss_sender, aes_key_s,
                   nonce_hex, ct_hex, aad, seal_log, packet, tamper,
                   ss_receiver, aes_key_r, recovered, error>>
    /\ UNCHANGED <<monitor_vars, intercept_log, tampered, sim>>
    /\ UNCHANGED run_vars

\* QuantumSpecterAdversary.intercept_packet: the packet kept in the log;
\* the reading of time.time() is kept as the word "time"
intercept_packet(k_hex, n_hex, c_hex, ad) ==
    [kem_ciphertext |-> k_hex,
     aes_nonce      |-> n_hex,
     aes_ciphertext |-> c_hex,
     aad            |-> ad,
     intercept_time |-> "time"]

\* specter.intercept_packet(kem_ct_hex, nonce_hex, ct_hex, aad), then
\* specter.attempt_lattice_attack(), which reads and writes no data
InterceptPacket ==
    /\ pc = "recorded"
    /\ intercept_log' =
          Append(intercept_log,
                 intercept_packet(kem_ct_hex, nonce_hex, ct_hex, aad))
    /\ pc' = "intercepted"
    /\ UNCHANGED <<key_data, plaintext, kem_ct_hex, ss_sender, aes_key_s,
                   nonce_hex, ct_hex, aad, seal_log, packet, tamper,
                   ss_receiver, aes_key_r, recovered, error>>
    /\ UNCHANGED <<monitor_vars, files, tampered, sim>>
    /\ UNCHANGED run_vars

\* the byte indexes random.randint(0, len(ciphertext_bytes) - 17) can return
TamperIndexes(c_hex) == 0..((Len(c_hex) \div 2) - (GcmTagLen + 1))

\* QuantumSpecterAdversary.attempt_payload_tampering, for the index and
\* the bit random.randint returned
attempt_payload_tampering(c_hex, idx, bit) ==
    Hex(FlipAt(FromHex(c_hex), idx, bit))

\* tampered = specter.attempt_payload_tampering(ct_hex, nonce_hex, aad);
\* random.randint raises ValueError on an empty range
AttemptPayloadTampering ==
    /\ pc = "intercepted"
    /\ IF ~HexOk(ct_hex) \/ TamperIndexes(ct_hex) = {}
       THEN /\ Raise("attempt_payload_tampering", "ValueError")
            /\ tampered' = tampered
       ELSE /\ \E idx \in TamperIndexes(ct_hex), bit \in 0..7 :
                 tampered' = attempt_payload_tampering(ct_hex, idx, bit)
            /\ pc' = "tampered"
            /\ error' = error
    /\ UNCHANGED <<key_data, plaintext, kem_ct_hex, ss_sender, aes_key_s,
                   nonce_hex, ct_hex, aad, seal_log, packet, tamper,
                   ss_receiver, aes_key_r, recovered>>
    /\ UNCHANGED <<monitor_vars, files, intercept_log, sim>>
    /\ UNCHANGED run_vars

\* simulate_tampered_decryption: what AESGCM.decrypt answered inside the
\* try block, and how the call ended for its caller.  InvalidTag is caught
\* by the except clause, after which the function returns.
simulate_tampered_decryption(aes_key, n_hex, t_hex, ad) ==
    IF ~HexOk(n_hex) \/ ~HexOk(t_hex)
    THEN [aesgcm |-> "not called", outcome |-> "ValueError"]
    ELSE LET r == AesGcmDecrypt(aes_key, FromHex(n_hex), FromHex(t_hex),
                                Utf8Encode(ad))
         IN  IF r.err = "" THEN [aesgcm |-> "returned", outcome |-> "returned"]
             ELSE IF r.err = "InvalidTag"
             THEN [aesgcm |-> "InvalidTag", outcome |-> "returned"]
             ELSE [aesgcm |-> r.err, outcome |-> r.err]

\* p4.simulate_tampered_decryption(aes_key_r, nonce_hex, tampered, aad), then
\* p4.print_mitm_comparison_table()
SimulateTamperedDecryption ==
    /\ pc = "tampered"
    /\ sim' = simulate_tampered_decryption(aes_key_r, nonce_hex, tampered, aad)
    /\ IF sim'.outcome = "returned" THEN pc' = "phase5" /\ error' = error
       ELSE Raise("simulate_tampered_decryption", sim'.outcome)
    /\ UNCHANGED <<key_data, plaintext, kem_ct_hex, ss_sender, aes_key_s,
                   nonce_hex, ct_hex, aad, seal_log, packet, tamper,
                   ss_receiver, aes_key_r, recovered>>
    /\ UNCHANGED <<monitor_vars, files, intercept_log, tampered>>
    /\ UNCHANGED run_vars

(***************************************************************************)
(* The monitor and run_decoherence_timeline.                               *)
(***************************************************************************)
\* GravityFieldDecoherenceSimulator.__init__: the fields of the new object
Simulator(initial_coherence, d) ==
    [coherence |-> initial_coherence, decay_rate |-> d,
     history |-> <<>>, tick |-> 0]

\* the state after GravityFieldDecoherenceSimulator(initial_coherence, d) and
\* CryptographicAgility(); a second monitor is constructed alike
InitSimulator(initial_coherence, d, sigma) ==
    LET field == Simulator(initial_coherence, d)
    IN  /\ chain = ALGORITHM_CHAIN
        /\ coherence = field.coherence
        /\ decay_rate = field.decay_rate
        /\ noise_std = sigma
        /\ noise = 0
        /\ tick = field.tick
        /\ history = field.history
        /\ previous_algo = "None"
        /\ log = <<>>
        /\ loop = "run"
        /\ call = [value |-> -1, algo |-> ALGORITHM_CHAIN[1]]
        /\ config = [initial_coherence |-> initial_coherence, decay_rate |-> d]
        /\ op = [name |-> "__init__", result |-> 0]
        /\ twin = Simulator(initial_coherence, d).coherence

\* field = GravityFieldDecoherenceSimulator(initial_coherence=1.0, decay_rate=d)
InitMonitor(d, sigma) == InitSimulator(ONE, d, sigma)

\* variant: without the test that a previous selection exists
switch_signal_unguarded(name, previous) == name # previous

\* the ALGORITHM SWITCH mark of a printed line
switch_signal(name, previous) == name # previous /\ previous # "None"

\* variant: a value equal to the threshold counts as collapsed
collapsed_inclusive(c) == c <= COLLAPSE

\* the test that ends the loop of run_decoherence_timeline
collapsed(c) == c < COLLAPSE

\* one iteration of the loop of run_decoherence_timeline
TimelineTick ==
    /\ loop = "run"
    /\ \E z \in GaussZ :
        LET c       == step(coherence, decay_rate, noise_std, z)
            algo    == negotiate_algorithm(chain, c)
            switch  == switch_signal(algo.name, previous_algo)
        IN  /\ coherence' = c
            /\ noise' = z * noise_std
            /\ tick' = tick + 1
            /\ history' = Append(history, c)
            /\ log' = Append(log, [t |-> Len(log), coherence |-> c,
                                   name |-> algo.name, switch |-> switch])
            /\ previous_algo' = algo.name
            /\ loop' = IF collapsed(c) THEN "collapsed"
                       ELSE IF Len(log) + 1 = MaxSteps THEN "finished"
                       ELSE "run"
    /\ UNCHANGED <<chain, decay_rate, noise_std, call, config, op, twin>>
    /\ UNCHANGED <<session_vars, lab_vars>>
    /\ UNCHANGED run_vars

\* field.step(sigma) on two monitors that were constructed alike, each with
\* its own sample of random.gauss
TwinStep ==
    /\ tick < MaxCalls
    /\ \E sigma \in {0, LAB_NOISE}, z \in GaussZ, z2 \in GaussZ :
        LET c == step(coherence, decay_rate, sigma, z)
        IN  /\ coherence' = c
            /\ twin' = step(twin, decay_rate, sigma, z2)
            /\ noise_std' = sigma
            /\ noise' = z * sigma
            /\ tick' = tick + 1
            /\ history' = Append(history, c)
            /\ op' = [name |-> "step", result |-> c]
    /\ UNCHANGED <<chain, decay_rate, previous_algo, log, loop, call, config>>
    /\ UNCHANGED <<session_vars, lab_vars>>
    /\ UNCHANGED run_vars

\* field.step(sigma), called directly
MonitorStep ==
    /\ tick < MaxCalls
    /\ \E sigma \in NoiseStds, z \in GaussZ :
        LET c == step(coherence, decay_rate, sigma, z)
        IN  /\ coherence' = c
            /\ noise_std' = sigma
            /\ noise' = z * sigma
            /\ tick' = tick + 1
            /\ history' = Append(history, c)
            /\ op' = [name |-> "step", result |-> c]
    /\ UNCHANGED <<chain, decay_rate, previous_algo, log, loop, call, config,
                   twin>>
    /\ UNCHANGED <<session_vars, lab_vars>>
    /\ UNCHANGED run_vars

\* a monitor that keeps being ticked without noise, collapsed or not:
\* coherence = field.step(), then algo = agility.negotiate_algorithm(coherence)
\* and the line with its switch mark, as in the loop of the timeline
DecayTick ==
    /\ tick < MaxTicks
    /\ \E z \in GaussZ :
        LET c       == step(coherence, decay_rate, 0, z)
            algo    == negotiate_algorithm(chain, c)
            switch  == switch_signal(algo.name, previous_algo)
        IN  /\ coherence' = c
            /\ noise_std' = 0
            /\ noise' = z * 0
            /\ tick' = tick + 1
            /\ history' = Append(history, c)
            /\ log' = Append(log, [t |-> Len(log), coherence |-> c,
                                   name |-> algo.name, switch |-> switch])
            /\ previous_algo' = algo.name
    /\ UNCHANGED <<chain, decay_rate, loop, call, config, op, twin>>
    /\ UNCHANGED <<session_vars, lab_vars>>
    /\ UNCHANGED run_vars

\* a method of the monitor that reads its fields
Observe(method, value) ==
    /\ op' = [name |-> method, result |-> value]
    /\ UNCHANGED <<chain, coherence, decay_rate, noise_std, noise, tick,
                   history, previous_algo, log, loop, call, config, twin>>
    /\ UNCHANGED <<session_vars, lab_vars>>
    /\ UNCHANGED run_vars

\* field.coherence_bar(): the number of filled cells and the colour
coherence_bar(c) ==
    [filled |-> (c * BAR_WIDTH) \div ONE,
     color  |-> IF c > 600 THEN "green" ELSE IF c > 300 THEN "yellow" ELSE "red"]

CoherenceBar == Observe("coherence_bar", coherence_bar(coherence))

\* field.is_coherent()
is_coherent(c, threshold) == c >= threshold

IsCoherent == Observe("is_coherent", is_coherent(coherence, COHERENT_THRESHOLD))

\* agility.negotiate_algorithm(field.coherence)
MonitorNegotiate ==
    Observe("negotiate_algorithm", negotiate_algorithm(chain, coherence))

\* agility.negotiate_algorithm(v), for any value v in [0, 1]
NegotiateCall ==
    /\ \E v \in 0..ONE :
         call' = [value |-> v, algo |-> negotiate_algorithm(chain, v)]
    /\ UNCHANGED <<chain, coherence, decay_rate, noise_std, noise, tick,
                   history, previous_algo, log, loop, config, op, twin>>
    /\ UNCHANGED <<session_vars, lab_vars>>
    /\ UNCHANGED run_vars

(***************************************************************************)
(* run_lab.main: phase 2 and the dispatch on --phase.                      *)
(***************************************************************************)
\* json.dumps(payload) of a telemetry payload: a JSON object, never empty
Payloads == Plaintexts \ {<<>>}

\* payload = p2.build_telemetry_payload(), then json.dump(payload, f) into
\* output/telemetry_payload.json
BuildPayload ==
    /\ ~Written(files.telemetry_payload)
    /\ \E pl \in Payloads :
         files' = [files EXCEPT !.telemetry_payload = [payload |-> pl]]
    /\ UNCHANGED <<session_vars, monitor_vars, intercept_log, tampered, sim>>
    /\ UNCHANGED run_vars

\* main, args.phase in (3, 4, 5): two lines are printed and nothing is run
MainHint ==
    /\ main.phase \in {3, 4, 5}
    /\ ~main.hint
    /\ main' = [main EXCEPT !.hint = TRUE]
    /\ UNCHANGED <<session_vars, monitor_vars, lab_vars, drawn>>

(***************************************************************************)
(* Specifications.                                                         *)
(***************************************************************************)
\* one tunnel session, with the record possibly altered on the way
Init == InitSession /\ InitMonitor(TIMELINE_DECAY, LAB_NOISE)

Next ==
    \/ GenerateKeypair
    \/ SenderEncapsulate
    \/ DeriveSender
    \/ EncryptPayload
    \/ Transmit
    \/ TamperAead
    \/ TamperKem
    \/ TamperAad
    \/ ReceiverDecapsulate
    \/ DeriveReceiver
    \/ DecryptPayload

Spec == Init /\ [][Next]_vars

\* a sender that seals several records under one session key
NextSeals ==
    \/ GenerateKeypair
    \/ SenderEncapsulate
    \/ DeriveSender
    \/ EncryptPayload
    \/ EncryptAgain

SpecSeals == Init /\ [][NextSeals]_vars

\* a sender invoked several times under the same public key, each time
\* for a record of its own
NextSenders ==
    \/ GenerateKeypair
    \/ SenderEncapsulate
    \/ DeriveSender
    \/ EncryptPayload
    \/ SenderAgain

SpecSenders == Init /\ [][NextSenders]_vars

\* the decoherence timeline, for every decay rate and noise magnitude
InitTimeline ==
    /\ InitSession
    /\ \E d \in DecayRates, sigma \in NoiseStds : InitMonitor(d, sigma)

NextTimeline == TimelineTick

SpecTimeline == InitTimeline /\ [][NextTimeline]_vars

\* the negotiator called with every value of [0, 1]
NextBands == NegotiateCall

SpecBands == Init /\ [][NextBands]_vars

\* run_all_phases, phases 1, 3 and 4: the receiver is given the sender's
\* values as they are
NextLab ==
    \/ GenerateKeypair
    \/ SenderEncapsulate
    \/ DeriveSender
    \/ EncryptPayload
    \/ Transmit
    \/ ReceiverDecapsulate
    \/ DeriveReceiver
    \/ DecryptPayload
    \/ WriteTunnelRecord
    \/ InterceptPacket
    \/ AttemptPayloadTampering
    \/ SimulateTamperedDecryption

SpecLab == Init /\ [][NextLab]_vars

\* phase 1 run for any parameter set, then phase 3: the tunnel under the
\* key pair of output/keys.json, and the tunnel record
NextRecord ==
    \/ GenerateAnyKeypair
    \/ SenderEncapsulate
    \/ DeriveSender
    \/ EncryptPayload
    \/ Transmit
    \/ ReceiverDecapsulate
    \/ DeriveReceiver
    \/ DecryptPayload
    \/ WriteTunnelRecord

SpecRecord == Init /\ [][NextRecord]_vars

\* run_all_phases with phase 5: p5.run_decoherence_timeline after phase 4
RunTimeline == pc = "phase5" /\ TimelineTick

NextRun ==
    \/ NextLab
    \/ RunTimeline

SpecRun == Init /\ [][NextRun]_vars

\* run_all_phases with all five phases: phase 2 builds the payload between
\* phase 1 and phase 3, and phase 3 seals json.dumps(payload).encode()
RunAllPhases ==
    \/ GenerateKeypair
    \/ pc = "encap" /\ BuildPayload
    \/ Written(files.telemetry_payload) /\ SenderEncapsulate
    \/ DeriveSender
    \/ EncryptPayload /\ plaintext' = files.telemetry_payload.payload
    \/ Transmit
    \/ ReceiverDecapsulate
    \/ DeriveReceiver
    \/ DecryptPayload
    \/ WriteTunnelRecord
    \/ InterceptPacket
    \/ AttemptPayloadTampering
    \/ SimulateTamperedDecryption
    \/ RunTimeline

\* main: the orchestrator invoked with --phase 1..5 or without it
InitMain ==
    /\ \E phase \in 0..5 : InitArgs(phase)
    /\ InitMonitor(TIMELINE_DECAY, LAB_NOISE)

NextMain ==
    \/ main.phase = 0 /\ RunAllPhases
    \/ main.phase = 1 /\ GenerateKeypair
    \/ main.phase = 2 /\ BuildPayload
    \/ MainHint

SpecMain == InitMain /\ [][NextMain]_vars

\* two monitors constructed alike and stepped together; 0.1 is the decay
\* rate of the documented example
InitTwins ==
    /\ InitSession
    /\ \E d \in DecayRates \cup {100} : InitSimulator(ONE, d, 0)

NextTwins == TwinStep

SpecTwins == InitTwins /\ [][NextTwins]_vars

\* a monitor ticked without noise, from a start value of 1.0, 0.5, one below
\* the collapse threshold, or the smallest value above 0, with a decay rate
\* of (0, 1)
DecayCoherences == {ONE, 500, 40, 1}

InitDecay ==
    /\ InitSession
    /\ \E c \in DecayCoherences, d \in DecayRates \cup {100, 250} :
          InitSimulator(c, d, 0)

NextDecay == DecayTick

SpecDecay == InitDecay /\ [][NextDecay]_vars

\* the same monitor, ticked for as long as a tick is possible
SpecDecayFair == InitDecay /\ [][NextDecay]_vars /\ WF_vars(DecayTick)

\* one monitor, constructed with any arguments, its methods called directly
InitMonitorCalls ==
    /\ InitSession
    /\ \E c \in ConfigCoherences, d \in ConfigDecayRates :
          InitSimulator(c, d, 0)

NextMonitorCalls ==
    \/ MonitorStep
    \/ CoherenceBar
    \/ IsCoherent
    \/ MonitorNegotiate

SpecMonitor == InitMonitorCalls /\ [][NextMonitorCalls]_vars

(***************************************************************************)
(* Properties.                                                             *)
(***************************************************************************)
InvalidTagAtOpen == [step |-> "decrypt_payload", err |-> "InvalidTag"]

\* C1: round trip.  When the record reaches the receiver as it was sent, no
\* step of the session fails, the receiver's shared secret equals the
\* sender's, and the plaintext recovered is the plaintext sealed.
C1_RoundTrip ==
    tamper = "none" =>
        /\ pc # "failed"
        /\ (pc \in {"derive_r", "open", "done"} => ss_receiver = ss_sender)
        /\ (pc \in {"open", "done"} => aes_key_r = aes_key_s)
        /\ (pc = "done" => recovered = [err |-> "", plaintext |-> plaintext])

C1_Witness ==
    /\ pc = "done"
    /\ tamper = "none"
    /\ plaintext # <<>>
    /\ recovered.plaintext = plaintext

\* C2: ciphertext tamper detection.  After a flip of any one bit of the AEAD
\* ciphertext, payload or tag, the session never completes; it ends with
\* InvalidTag raised by decrypt_payload, no other error, and no plaintext.
C2_CiphertextTamperDetected ==
    tamper = "aead_bit" =>
        /\ pc # "done"
        /\ (pc = "failed" => error = InvalidTagAtOpen
                             /\ recovered = [err |-> "InvalidTag"])

\* a flip inside the tag (the payload bytes arrive unchanged) was rejected
C2_Witness ==
    /\ tamper = "aead_bit"
    /\ pc = "failed"
    /\ plaintext # <<>>
    /\ LET n == Len(ct_hex) - (2 * GcmTagLen)
       IN  SubSeq(packet.aes_ciphertext, 1, n) = SubSeq(ct_hex, 1, n)

\* C3: associated-data tamper detection.  When the associated data given
\* to decrypt_payload differs from the one sealed (ciphertext, nonce and
\* key unchanged), the call raises InvalidTag and returns no plaintext.
C3_AadTamperDetected ==
    tamper = "aad" =>
        /\ pc # "done"
        /\ (pc \in {"open", "failed"} => aes_key_r = aes_key_s)
        /\ (pc = "failed" => error = InvalidTagAtOpen
                             /\ recovered = [err |-> "InvalidTag"])

C3_Witness ==
    /\ tamper = "aad"
    /\ pc = "failed"
    /\ packet.aad # aad
    /\ packet.aes_ciphertext = ct_hex
    /\ \E i \in 1..Len(packet.aad) : packet.aad[i] > 127

\* C4: single failure mode under KEM tampering.  After a flip of any one
\* bit of the KEM ciphertext, decapsulation and derivation return, and the
\* session ends with InvalidTag raised by decrypt_payload: never an error
\* of the decapsulation step, never a completed decryption.
C4_KemTamperFailsAtOpen ==
    tamper = "kem_bit" =>
        /\ pc # "done"
        /\ (pc = "failed" => error = InvalidTagAtOpen)

C4_Witness ==
    /\ tamper = "kem_bit"
    /\ pc = "failed"
    /\ error = InvalidTagAtOpen
    /\ ss_receiver # ss_sender
    /\ Len(ss_receiver) = Len(ss_sender)

\* C5: nonce uniqueness.  No two encrypt_payload calls made with the same
\* session key use the same nonce.
C5_NonceUnique ==
    \A i, j \in 1..Len(seal_log) : i # j => seal_log[i] # seal_log[j]

\* C6: band mapping.  A value above 0.7 selects rank 0, a value in
\* (0.4, 0.7] rank 1, a value in (0.2, 0.4] rank 2 and a value of at most
\* 0.2 rank 3; the result is exactly one entry of the chain.
C6_BandMapping ==
    call.value # -1 =>
        LET v == call.value
        IN  /\ Cardinality({r \in 1..4 : chain[r] = call.algo}) = 1
            /\ (v > 700 => call.algo = chain[1])
            /\ (v > 400 /\ v <= 700 => call.algo = chain[2])
            /\ (v > 200 /\ v <= 400 => call.algo = chain[3])
            /\ (v <= 200 => call.algo = chain[4])
            /\ (v = 750 => call.algo.name = "ML-KEM-768")
            /\ (v = 500 => call.algo.name = "ML-KEM-1024")
            /\ (v = 300 => call.algo.name = "ML-DSA-65+AES")
            /\ (v = 100 => call.algo.name = "X25519+AES256")
            /\ (v = 700 => call.algo.name = "ML-KEM-1024")

C6_Witness == call.value = 700 /\ call.algo.status = "FALLBACK-1"

\* C7 as stated: a value equal to a threshold (0.7, 0.4, 0.2) selects the
\* stronger, lower-rank one of the two bands that meet there.
C7_TiesToStrongerBand ==
    /\ (call.value = 700 => call.algo = chain[1])
    /\ (call.value = 400 => call.algo = chain[2])
    /\ (call.value = 200 => call.algo = chain[3])

\* C7 as amended: a value equal to a threshold (0.7, 0.4, 0.2) selects the
\* band below it, the higher-rank one of the two bands that meet there.
C7_TiesToLowerBand ==
    /\ (call.value = 700 => call.algo = chain[2])
    /\ (call.value = 400 => call.algo = chain[3])
    /\ (call.value = 200 => call.algo = chain[4])

C7_Witness == call.value = 200 /\ ~call.algo.pqc

\* C8: negotiator purity.  Along a timeline, two negotiations of the same
\* value give the same descriptor whatever was selected before; the chain
\* is never changed, and the negotiation leaves the monitor's value and
\* tick as step left them.
C8_NegotiatorPure ==
    /\ chain = ALGORITHM_CHAIN
    /\ \A i, j \in 1..Len(log) :
          log[i].coherence = log[j].coherence => log[i].name = log[j].name
    /\ tick = Len(log)
    /\ (log # <<>> => log[Len(log)].coherence = coherence)

\* the same value negotiated twice, after different selections
C8_Witness ==
    \E i, j \in 2..Len(log) :
        /\ i < j
        /\ log[i].coherence = log[j].coherence
        /\ log[i - 1].name # log[j - 1].name

\* C9: suite-changed signal.  A printed line carries the switch mark
\* exactly when a line precedes it and names another algorithm (names
\* identify the descriptors of the chain); the loop keeps the last
\* selection only.
C9_SwitchSignal ==
    /\ \A a, b \in 1..Len(chain) : chain[a].name = chain[b].name => a = b
    /\ \A i \in 1..Len(log) :
          log[i].switch <=> (i > 1 /\ log[i].name # log[i - 1].name)
    /\ previous_algo = (IF log = <<>> THEN "None" ELSE log[Len(log)].name)

C9_Witness ==
    /\ \E i \in 2..Len(log) : log[i].switch
    /\ \E i \in 2..Len(log) : ~log[i].switch

\* C10: monitor bounds.  For every decay rate in (0,1) and every noise
\* magnitude, the coherence is within [0,1] after any number of steps.
C10_CoherenceBounds ==
    /\ decay_rate > 0 /\ decay_rate < 1000
    /\ coherence >= 0 /\ coherence <= 1000
    /\ \A i \in 1..Len(history) : history[i] >= 0 /\ history[i] <= 1000

\* a step whose decayed value plus noise was below 0, and one above 1
C10_Witness ==
    /\ tick > 1
    /\ \E i \in 2..Len(history) :
          Decay(history[i - 1], decay_rate) + noise < 0 /\ i = Len(history)
    /\ \E i \in 1..Len(history) : history[i] = 1000
    /\ coherence = 0

\* C11: deterministic decay without noise.  When two monitors in the same
\* state are stepped with noise magnitude 0, they are in the same state
\* afterwards whatever random.gauss sampled for each, and from the value
\* 1.0 with decay rate 0.1 that state has the value 0.9.
C11_NoNoiseDeterministic ==
    [][(twin = coherence /\ tick' = tick + 1 /\ noise_std' = 0) =>
          /\ twin' = coherence'
          /\ noise' = 0
          /\ (coherence = 1000 /\ decay_rate = 100 => coherence' = 900)]_vars

C11_Witness ==
    /\ tick = 1
    /\ noise_std = 0
    /\ decay_rate = 100
    /\ coherence = 900
    /\ twin = 900

\* C12: monitor transition.  A monitor starts with the value it was
\* constructed with (1.0 by default) and tick 0; a call of another method
\* than step leaves value and tick as they were; a step sets the value to
\* the decayed value plus the noise, clamped once to [0, 1], adds 1 to tick
\* and one entry to the history, so that tick counts the steps.
C12_MonitorTransition ==
    /\ [](tick = Len(history))
    /\ [](tick = 0 => /\ coherence = config.initial_coherence
                      /\ (config = DefaultConfig => coherence = 1000))
    /\ [][/\ op'.name # "step" => coherence' = coherence /\ tick' = tick
          /\ op'.name = "step" =>
                /\ tick' = tick + 1
                /\ coherence' =
                      Max(0, Min(1000, Decay(coherence, decay_rate) + noise'))
                /\ history' = Append(history, coherence')]_vars

\* a step with negative noise, then a method that reads the monitor
C12_Witness ==
    /\ config = DefaultConfig
    /\ tick = 2
    /\ noise < 0
    /\ coherence > 0
    /\ op.name = "coherence_bar"

\* C14: constructor-time validation.  No monitor whose decay rate is
\* outside (0, 1) has made a step.
C14_ConfigValidated ==
    tick > 0 => decay_rate > 0 /\ decay_rate < 1000

\* C15: totality.  For a monitor constructed with a value in [0, 1] and a
\* decay rate in (0, 1), and every noise magnitude, a step returns the new
\* value, a number in [0, 1], and negotiate_algorithm returns one of the
\* four entries of the chain.
C15_Total ==
    (config.initial_coherence \in 0..1000 /\ config.decay_rate \in 1..999) =>
        /\ coherence \in 0..1000
        /\ (op.name = "step" => op.result = coherence /\ tick = Len(history))
        /\ (op.name = "negotiate_algorithm" =>
               \E r \in 1..4 : op.result = ALGORITHM_CHAIN[r])

C15_Witness ==
    /\ config.decay_rate \in 1..999
    /\ config.initial_coherence = 1000
    /\ tick > 0
    /\ coherence = 0
    /\ op.name = "negotiate_algorithm"
    /\ op.result = ALGORITHM_CHAIN[4]

\* C13: collapse stops the session.  The loop makes at most MaxSteps
\* ticks; it has stopped as collapsed exactly when the value of the last
\* tick is below 0.05, and no tick or negotiation follows such a value: a
\* value of 0.05 or more is the only kind that has a line after it.
C13_CollapseStops ==
    /\ Len(log) <= MaxSteps
    /\ tick = Len(log)
    /\ Len(history) = Len(log)
    /\ \A i \in 1..(Len(log) - 1) : log[i].coherence >= 50
    /\ (loop = "collapsed" <=> (log # <<>> /\ log[Len(log)].coherence < 50))
    /\ (loop = "finished" => Len(log) = MaxSteps)
    /\ (loop = "run" => Len(log) < MaxSteps)

\* a tick followed a value of exactly 0.05, and a later value ended the loop
C13_Witness ==
    /\ loop = "collapsed"
    /\ Len(log) < MaxSteps
    /\ \E i \in 1..(Len(log) - 1) : log[i].coherence = 50

\* C16: plaintext discarded on authentication failure.  The receiver holds
\* a plaintext only when decrypt_payload returned, and then the tag of the
\* record it was given is the tag of that record's bytes under the
\* receiver's key, nonce and associated data; when the call ended with
\* InvalidTag its result carries the error and nothing else.
C16_NoPlaintextOnFailure ==
    /\ ("plaintext" \in DOMAIN recovered =>
          /\ pc = "done"
          /\ recovered.err = ""
          /\ LET data == FromHex(packet.aes_ciphertext)
                 n    == Len(data) - 16
             IN  /\ n >= 0
                 /\ SubSeq(data, n + 1, Len(data)) =
                       GcmTag(aes_key_r, FromHex(packet.aes_nonce),
                              Utf8Encode(packet.aad), SubSeq(data, 1, n)))
    /\ (error.err = "InvalidTag" =>
          /\ pc = "failed"
          /\ error.step = "decrypt_payload"
          /\ DOMAIN recovered = {"err"}
          /\ recovered.err = "InvalidTag")

\* a record whose payload byte was altered (the tag arrives as sent) ended
\* with InvalidTag
C16_Witness ==
    /\ pc = "failed"
    /\ error.err = "InvalidTag"
    /\ tamper = "aead_bit"
    /\ plaintext # <<>>
    /\ SubSeq(packet.aes_ciphertext, 1, 2) # SubSeq(ct_hex, 1, 2)

\* C17: failure propagation.  A failure of a channel operation ends the
\* run with that failure, and a function in which the library's open call
\* answered InvalidTag ends with InvalidTag for its caller.
C17_FailuresPropagate ==
    /\ (recovered.err \notin {"", "not called"} =>
          pc = "failed" /\ error.err = recovered.err)
    /\ (sim.aesgcm = "InvalidTag" => sim.outcome = "InvalidTag")

\* C18: the negotiated suite is the suite in force.  Once the timeline has
\* negotiated, the algorithm the channel's operations are given (the
\* algorithm of key_data) is the algorithm selected last.
C18_NegotiatedSuiteInForce ==
    previous_algo # "None" => key_data.algorithm = previous_algo

\* h contains s as a run of consecutive elements
Contains(h, s) ==
    \E i \in 0..(Len(h) - Len(s)) : SubSeq(h, i + 1, i + Len(s)) = s

\* the hexadecimal texts held by the files written and by the adversary
ArtifactTexts ==
    (IF Written(files.keys)
     THEN {files.keys.public_key, files.keys.private_key} ELSE {})
    \cup (IF Written(files.tunnel_record)
          THEN {files.tunnel_record.kem_ciphertext,
                files.tunnel_record.aes_nonce,
                files.tunnel_record.aes_ciphertext} ELSE {})
    \cup UNION {{intercept_log[i].kem_ciphertext, intercept_log[i].aes_nonce,
                 intercept_log[i].aes_ciphertext} :
                i \in 1..Len(intercept_log)}
    \cup {tampered}

\* the shared secrets and session keys that exist, as hexadecimal text
SecretTexts ==
    {Hex(k) : k \in {ss_sender, ss_receiver, aes_key_s, aes_key_r} \ {<<>>}}

RecordFields ==
    {"algorithm", "kem_ciphertext", "aes_nonce", "aes_ciphertext", "aad"}

\* C19: secrets stay local.  The tunnel record has the five fields
\* algorithm, KEM ciphertext, nonce, AEAD ciphertext and associated data,
\* with the sender's values; a packet of the adversary has four of them,
\* with the same values, and the adversary's own reading of the clock; no
\* text of a file or of the adversary contains a shared secret or a session
\* key, and the associated data is the fixed label.
C19_SecretsLocal ==
    /\ (Written(files.tunnel_record) =>
          /\ DOMAIN files.tunnel_record = RecordFields
          /\ files.tunnel_record = SentPacket)
    /\ \A i \in 1..Len(intercept_log) :
          /\ DOMAIN intercept_log[i] \ {"intercept_time"} \subseteq RecordFields
          /\ \A f \in DOMAIN intercept_log[i] \ {"intercept_time"} :
                intercept_log[i][f] = SentPacket[f]
          /\ intercept_log[i].intercept_time = "time"
    /\ \A t \in ArtifactTexts, k \in SecretTexts : ~Contains(t, k)
    /\ aad \in {<<>>, Utf8Decode(TELEMETRY_AAD)}

\* the record is written, the packet intercepted, the ciphertext altered
C19_Witness ==
    /\ pc = "phase5"
    /\ Written(files.tunnel_record)
    /\ Len(intercept_log) = 1
    /\ tampered # ct_hex
    /\ aes_key_r # <<>>
    /\ ss_receiver = ss_sender

\* C20: private key confinement.  No file written and no packet of the
\* adversary holds the receiver's private key.
C20_PrivateKeyConfined ==
    /\ (Written(files.keys) => "private_key" \notin DOMAIN files.keys)
    /\ (key_data.err = "" => key_data.private_key \notin ArtifactTexts)

\* C21: sender statelessness.  Whatever calls came before, the nonce of a
\* sealed record is the one os.urandom returned to that very call of
\* encrypt_payload, and the shared secret the sender holds is the one its
\* latest KEM ciphertext decapsulates to: nothing of an earlier call is used
\* again.
C21_SenderStateless ==
    /\ (ct_hex # <<>> =>
          /\ nonce_hex = Hex(drawn)
          /\ seal_log[Len(seal_log)] = Hex(drawn))
    /\ (pc \in {"derive_s", "seal", "channel"} =>
          LET r == receiver_decapsulate(key_data.private_key, kem_ct_hex,
                                        key_data.algorithm)
          IN  r.err = "" /\ r.shared_secret = ss_sender)

\* two records were sealed with different nonces, the later one under the
\* key of an encapsulation other than the one of randomness 0
C21_Witness ==
    /\ pc = "channel"
    /\ Len(seal_log) = 2
    /\ seal_log[1] # seal_log[2]
    /\ aes_key_s # derive_aes_key(KemEncap(key_data.algorithm,
                                           FromHex(key_data.public_key),
                                           0).shared_secret, TUNNEL_CONTEXT)

\* C22: fixed associated data.  Every record the sender seals carries the one
\* constant label, and the associated data the receiver has opened a record
\* with (the argument decrypt_payload was called with) is that same
\* constant, whatever the record that arrived says.
C22_FixedAssociatedData ==
    /\ (ct_hex # <<>> => aad = Utf8Decode(TELEMETRY_AAD))
    /\ (recovered # NoResult => packet.aad = Utf8Decode(TELEMETRY_AAD))

\* contexts other than the tunnel's: none, the channel label, the label of a
\* next protocol version
OtherContexts ==
    {<<>>, TELEMETRY_AAD, [TUNNEL_CONTEXT EXCEPT ![Len(TUNNEL_CONTEXT)] = 50]}

\* C23: key derivation agreement.  A derived session key has 32 bytes; the
\* sender's and the receiver's keys are both the derivation of their own
\* shared secret under the one tunnel context, so equal secrets give equal
\* keys; and the sender's secret derived under any other context gives a
\* key different from the session key.
C23_KeyDerivationAgreement ==
    /\ (aes_key_s # <<>> =>
          /\ Len(aes_key_s) = AES_KEY_LEN
          /\ \A i \in 1..Len(aes_key_s) : aes_key_s[i] \in Byte
          /\ aes_key_s = derive_aes_key(ss_sender, TUNNEL_CONTEXT)
          /\ \A c \in OtherContexts : derive_aes_key(ss_sender, c) # aes_key_s)
    /\ (aes_key_r # <<>> =>
          /\ Len(aes_key_r) = AES_KEY_LEN
          /\ aes_key_r = derive_aes_key(ss_receiver, TUNNEL_CONTEXT)
          /\ ss_receiver = ss_sender => aes_key_r = aes_key_s)

\* both sides have derived their keys, from equal secrets
C23_Witness ==
    /\ aes_key_s # <<>>
    /\ aes_key_r # <<>>
    /\ ss_receiver = ss_sender
    /\ aes_key_r = aes_key_s

\* what a phase leaves behind when it has run
PhaseRan(n) ==
    CASE n = 1 -> key_data.err # "not called"
      [] n = 2 -> Written(files.telemetry_payload)
      [] n = 3 -> kem_ct_hex # <<>>
      [] n = 4 -> intercept_log # <<>>
      [] n = 5 -> tick > 0

\* main has returned: run_all_phases has ended, or the branch of the
\* single-phase dispatch has
MainReturned ==
    CASE main.phase = 0 -> pc = "failed" \/ loop # "run"
      [] main.phase = 1 -> key_data.err # "not called"
      [] main.phase = 2 -> Written(files.telemetry_payload)
      [] OTHER          -> main.hint

\* C24: single-phase dispatch.  Invoked with --phase N, no phase other than
\* N ever runs, and when main has returned phase N has run; invoked without
\* --phase, all five phases have run when main has returned.
C24_SinglePhaseDispatch ==
    /\ (main.phase \in 1..5 =>
          \A n \in 1..5 : PhaseRan(n) => n = main.phase)
    /\ (MainReturned =>
          IF main.phase = 0 THEN \A n \in 1..5 : PhaseRan(n)
          ELSE PhaseRan(main.phase))

\* C25: step ordering.  In every state of a run, what a step produced is
\* there only together with what the steps before it produced: the KEM
\* ciphertext with the key pair, the sender's key with the secret of the
\* encapsulation whose ciphertext is held (and it is the derivation of that
\* secret), the sealed record with that key (and it is the seal under it),
\* the receiver's key with the receiver's secret, the opened result with
\* the receiver's key, the tunnel record with the sealed record; an
\* exception has ended the run exactly when the run is at "failed", and no
\* step is ever taken from there.
C25_StepOrdering ==
    /\ [](/\ (kem_ct_hex # <<>> => key_data.err = "")
          /\ (aes_key_s # <<>> =>
                /\ kem_ct_hex # <<>>
                /\ receiver_decapsulate(key_data.private_key, kem_ct_hex,
                                        key_data.algorithm).shared_secret
                      = ss_sender
                /\ aes_key_s = derive_aes_key(ss_sender, TUNNEL_CONTEXT))
          /\ (ct_hex # <<>> =>
                /\ aes_key_s # <<>>
                /\ ct_hex = Hex(AesGcmEncrypt(aes_key_s, FromHex(nonce_hex),
                                              plaintext, TELEMETRY_AAD)))
          /\ (ss_receiver # <<>> => packet # NoPacket)
          /\ (aes_key_r # <<>> =>
                /\ ss_receiver # <<>>
                /\ aes_key_r = derive_aes_key(ss_receiver, TUNNEL_CONTEXT))
          /\ (recovered # NoResult => aes_key_r # <<>>)
          /\ (Written(files.tunnel_record) =>
                /\ ct_hex # <<>>
                /\ files.tunnel_record.aes_ciphertext = ct_hex)
          /\ (error # NoError <=> pc = "failed"))
    /\ [][pc # "failed"]_vars

\* a run that failed in the tampering step: the tunnel record was written
\* before, and the step after the failed one was never taken
C25_Witness ==
    /\ pc = "failed"
    /\ error.step = "attempt_payload_tampering"
    /\ Written(files.tunnel_record)
    /\ recovered.err = ""
    /\ sim.outcome = "not called"

\* C26: algorithm consistency.  Whatever parameter set the key pair was
\* generated for, it is the one named in output/keys.json, the one of the
\* record the receiver decapsulates, and the one stored in the tunnel
\* record; and it is a parameter set of ML-KEM whenever a step after key
\* generation has run.
C26_AlgorithmConsistency ==
    /\ (Written(files.keys) => files.keys.algorithm = key_data.algorithm)
    /\ (kem_ct_hex # <<>> => key_data.algorithm \in KemAlgorithms)
    /\ (packet # NoPacket => packet.algorithm = key_data.algorithm)
    /\ (Written(files.tunnel_record) =>
          /\ files.tunnel_record.algorithm = key_data.algorithm
          /\ files.tunnel_record.algorithm = files.keys.algorithm
          /\ files.tunnel_record.algorithm = packet.algorithm)

\* a tunnel record was written for a key pair that is not of the default
\* parameter set
C26_Witness ==
    /\ Written(files.tunnel_record)
    /\ key_data.algorithm = "ML-KEM-1024"
    /\ files.tunnel_record.algorithm = "ML-KEM-1024"
    /\ ss_receiver = ss_sender

RankOfName(name) == CHOOSE r \in 0..3 : chain[r + 1].name = name

\* the lines that carry the switch mark
SwitchMarks == {i \in 1..Len(log) : log[i].switch}

\* C28: no return to a stronger suite.  Along the ticks of a monitor
\* without noise, the rank of the suite selected at a tick is never below
\* the rank selected at the tick before; a line carries the switch mark
\* only when its rank is above the one before; and at most three lines
\* carry the mark.
C28_NoReturnToStronger ==
    /\ \A i \in 2..Len(log) :
          /\ RankOfName(log[i - 1].name) <= RankOfName(log[i].name)
          /\ log[i].switch =>
                RankOfName(log[i - 1].name) < RankOfName(log[i].name)
    /\ \A i \in 1..Len(log) :
          log[i].name = chain[negotiate_rank(log[i].coherence) + 1].name
    /\ Cardinality(SwitchMarks) <= 3

\* a session that went through all four suites in turn: three switch marks
C28_Witness ==
    /\ Cardinality(SwitchMarks) = 3
    /\ \A r \in 0..3 : \E i \in 1..Len(log) : RankOfName(log[i].name) = r
    /\ \E i \in 2..Len(log) :
          ~log[i].switch /\ log[i].coherence < log[i - 1].coherence

\* the suite of rank 3 was selected at the last tick, at a value of 0.2 or less
EmergencySelected ==
    /\ log # <<>>
    /\ coherence <= BAND_FALLBACK2
    /\ log[Len(log)].coherence = coherence
    /\ log[Len(log)].name = chain[4].name
    /\ ~chain[4].pqc

\* at every tick whose value was above 0.2 a post-quantum suite of rank 0
\* to 2 was selected
OnlyPqcAboveEmergency ==
    \A i \in 1..Len(log) :
        log[i].coherence > BAND_FALLBACK2 =>
            /\ RankOfName(log[i].name) \in 0..2
            /\ chain[RankOfName(log[i].name) + 1].pqc

DecayEffective ==
    /\ decay_rate > 0 /\ decay_rate < ONE
    /\ \A c \in COLLAPSE..ONE : Decay(c, decay_rate) < c

BitsDiffering(a, b) ==
    Sum([i \in 1..Len(a) |->
            Cardinality({k \in 0..7 :
                (a[i] \div Pow2(k)) % 2 # (b[i] \div Pow2(k)) % 2})])

\* C30: adversary bit flip.  attempt_payload_tampering never ends with an
\* exception, whatever ciphertext the sender produced; and the ciphertext
\* it returned has the length of the sealed one, differs from it in
\* exactly one bit, and has its last 16 bytes (the tag) unchanged.
C30_AdversaryBitFlip ==
    /\ error.step # "attempt_payload_tampering"
    /\ (pc \in {"tampered", "phase5"} =>
          LET a == FromHex(ct_hex)
              b == FromHex(tampered)
          IN  /\ Len(tampered) = Len(ct_hex)
              /\ BitsDiffering(a, b) = 1
              /\ \A i \in (Len(a) - GcmTagLen + 1)..Len(a) : a[i] = b[i])

====
